---- MODULE Spec2Model ----
(***************************************************************************)
(* Model of src/reader.rs: the Reader, a forward-only scanner over a       *)
(* string slice.  The text is modelled as its bytes (UTF-8), the cursor    *)
(* as the Peekable<Chars> it is: a byte position of the Chars iterator     *)
(* plus the one-slot lookahead buffer of Peekable.  Characters are code    *)
(* points (integers).                                                      *)
(***************************************************************************)
EXTENDS Integers, Sequences, FiniteSets, TLC

VARIABLES text, line, column, offset, cursor, status, consumed, last

vars == <<text, line, column, offset, cursor, status, consumed, last>>

(***************************************************************************)
(* Bounds of the model.                                                    *)
(***************************************************************************)
MaxLen == 3
MaxBlockLen == 2
Near == 2

(***************************************************************************)
(* UTF-8: what &str, str::chars() and str slicing do.                      *)
(***************************************************************************)
Utf8Len(c) == IF c < 128 THEN 1 ELSE IF c < 2048 THEN 2 ELSE IF c < 65536 THEN 3 ELSE 4

Encode(c) ==
    CASE Utf8Len(c) = 1 -> <<c>>
      [] Utf8Len(c) = 2 -> <<192 + (c \div 64), 128 + (c % 64)>>
      [] Utf8Len(c) = 3 -> <<224 + (c \div 4096), 128 + ((c \div 64) % 64), 128 + (c % 64)>>
      [] OTHER          -> <<240 + (c \div 262144), 128 + ((c \div 4096) % 64),
                             128 + ((c \div 64) % 64), 128 + (c % 64)>>

RECURSIVE EncodeStr(_)
EncodeStr(cs) == IF cs = <<>> THEN <<>> ELSE Encode(Head(cs)) \o EncodeStr(Tail(cs))

\* Width of the character whose first byte is b.
WidthOfLead(b) == IF b < 128 THEN 1 ELSE IF b < 224 THEN 2 ELSE IF b < 240 THEN 3 ELSE 4

\* The character that starts at byte position p (0-based) of the bytes t.
DecodeAt(t, p) ==
    LET b == t[p + 1]
        w == WidthOfLead(b)
        k(i) == t[p + 1 + i] % 64
    IN  CASE w = 1 -> b
          [] w = 2 -> (b % 32) * 64 + k(1)
          [] w = 3 -> (b % 16) * 4096 + k(1) * 64 + k(2)
          [] OTHER -> (b % 8) * 262144 + k(1) * 4096 + k(2) * 64 + k(3)

RECURSIVE DecodeFrom(_, _)
DecodeFrom(t, p) ==
    IF p >= Len(t) THEN <<>>
    ELSE <<DecodeAt(t, p)>> \o DecodeFrom(t, p + WidthOfLead(t[p + 1]))

\* str::is_char_boundary
IsCharBoundary(t, i) ==
    \/ i = 0
    \/ i = Len(t)
    \/ (i < Len(t) /\ ~(t[i + 1] \in 128..191))

\* &text[start..end] succeeds iff both ends are character boundaries.
SliceOk(t, start, end) ==
    start <= end /\ IsCharBoundary(t, start) /\ IsCharBoundary(t, end)

Slice(t, start, end) == SubSeq(t, start + 1, end)

(***************************************************************************)
(* Option values.  A character result carries <<c>>, a &str result its     *)
(* bytes, position() the pair <<line, column>>, a () result nothing.       *)
(***************************************************************************)
None == [some |-> FALSE, val |-> <<>>]
Some(v) == [some |-> TRUE, val |-> v]
Unit == Some(<<>>)

Out(rd, ret) == [rd |-> rd, ret |-> ret, panic |-> FALSE]
Panic(rd) == [rd |-> rd, ret |-> None, panic |-> TRUE]

(***************************************************************************)
(* The cursor: Peekable<Chars>.                                            *)
(***************************************************************************)
\* Chars::next at byte position pos of text.
CharsNext(pos) ==
    IF pos >= Len(text) THEN [pos |-> pos, item |-> None]
    ELSE [pos |-> pos + WidthOfLead(text[pos + 1]), item |-> Some(<<DecodeAt(text, pos)>>)]

\* Peekable::next: the buffered item if there is one, else the iterator's.
PeekableNext(cur) ==
    IF cur.peeked # <<>>
    THEN [cur |-> [cur EXCEPT !.peeked = <<>>], item |-> cur.peeked[1]]
    ELSE LET Took(n) == [cur |-> [cur EXCEPT !.pos = n.pos], item |-> n.item]
         IN  Took(CharsNext(cur.pos))

\* Peekable::peek that does not keep the item it took from the iterator.
PeekablePeek_NoBuffer(cur) ==
    IF cur.peeked # <<>>
    THEN [cur |-> cur, item |-> cur.peeked[1]]
    ELSE LET Took(n) == [cur |-> [pos |-> n.pos, peeked |-> <<>>], item |-> n.item]
         IN  Took(CharsNext(cur.pos))

\* Peekable::peek: fills the buffer if it is empty, returns its content.
PeekablePeek(cur) ==
    IF cur.peeked # <<>>
    THEN [cur |-> cur, item |-> cur.peeked[1]]
    ELSE LET Took(n) == [cur |-> [pos |-> n.pos, peeked |-> <<n.item>>], item |-> n.item]
         IN  Took(CharsNext(cur.pos))

\* The characters the cursor has still to deliver.
Remaining(cur) ==
    (IF cur.peeked # <<>> /\ cur.peeked[1].some THEN cur.peeked[1].val ELSE <<>>)
        \o DecodeFrom(text, cur.pos)

(***************************************************************************)
(* Reader.  A reader value rd has the fields of the struct; consumed is    *)
(* the history of the characters Iterator::next has delivered, captured    *)
(* the history of the captures that returned during the current call of    *)
(* the user: the start and end each one took and the result it gave.       *)
(***************************************************************************)
NewReader ==
    [line |-> 1, column |-> 1, offset |-> 0,
     cursor |-> [pos |-> 0, peeked |-> <<>>],
     consumed |-> <<>>, captured |-> <<>>]

\* Advance with the column of a new line counted from 0.
Advance_ZeroColumn(rd, c) ==
    [rd EXCEPT !.line = IF c = 10 THEN rd.line + 1 ELSE rd.line,
               !.column = IF c = 10 THEN 0 ELSE rd.column + 1,
               !.offset = rd.offset + 1,
               !.consumed = Append(rd.consumed, c)]

\* Advance with the offset reset on a newline, as the column is.
Advance_ResetOffset(rd, c) ==
    [rd EXCEPT !.line = IF c = 10 THEN rd.line + 1 ELSE rd.line,
               !.column = IF c = 10 THEN 1 ELSE rd.column + 1,
               !.offset = IF c = 10 THEN 0 ELSE rd.offset + 1,
               !.consumed = Append(rd.consumed, c)]

\* Advance without the column reset on a newline.
Advance_NoColumnReset(rd, c) ==
    [rd EXCEPT !.line = IF c = 10 THEN rd.line + 1 ELSE rd.line,
               !.column = rd.column + 1,
               !.offset = rd.offset + 1,
               !.consumed = Append(rd.consumed, c)]

\* The position update of Iterator::next for a delivered character c.
Advance(rd, c) ==
    [rd EXCEPT !.line = IF c = 10 THEN rd.line + 1 ELSE rd.line,
               !.column = IF c = 10 THEN 1 ELSE rd.column + 1,
               !.offset = rd.offset + 1,
               !.consumed = Append(rd.consumed, c)]

next(rd) ==
    LET Match(n) ==
            IF n.item.some
            THEN Out(Advance([rd EXCEPT !.cursor = n.cur], n.item.val[1]), n.item)
            ELSE Out([rd EXCEPT !.cursor = n.cur], None)
    IN  Match(PeekableNext(rd.cursor))

\* peek that takes the character off the cursor.
peek_consuming(rd) == next(rd)

peek(rd) ==
    LET Got(p) == Out([rd EXCEPT !.cursor = p.cur], p.item)
    IN  Got(PeekablePeek(rd.cursor))

position(rd) == Out(rd, Some(<<rd.line, rd.column>>))

\* A predicate Fn(char) -> bool, given by a set of characters and a sign.
Check(p, c) == (c \in p.set) # p.neg

\* consume_while that tests the character after taking it.
RECURSIVE consume_while_past(_, _)
consume_while_past(rd, check) ==
    LET Match(n) ==
            IF n.ret.some /\ Check(check, n.ret.val[1])
            THEN consume_while_past(n.rd, check)
            ELSE Out(n.rd, Unit)
    IN  Match(next(rd))

RECURSIVE consume_while(_, _)
consume_while(rd, check) ==
    LET Match(p) ==
            IF p.ret.some /\ Check(check, p.ret.val[1])
            THEN consume_while(next(p.rd).rd, check)
            ELSE Out(p.rd, Unit)
    IN  Match(peek(rd))

consume_any(rd, chars) == consume_while(rd, [neg |-> FALSE, set |-> chars])

\* consume_until_char that stops after the target.
consume_until_char_through(rd, target) ==
    LET Past(o) == Out(next(o.rd).rd, Unit)
    IN  Past(consume_while(rd, [neg |-> TRUE, set |-> {target}]))

consume_until_char(rd, target) == consume_while(rd, [neg |-> TRUE, set |-> {target}])

consume_digits(rd) == consume_while(rd, [neg |-> FALSE, set |-> 48..57])

\* consume_whitespace that does not take newlines.
consume_whitespace_inline(rd) == consume_any(rd, {32, 9})

consume_whitespace(rd) == consume_any(rd, {32, 9, 10})

\* read_char that takes whatever character is next.
read_char_any(rd, target) ==
    LET Match(p) ==
            IF p.ret.some
            THEN Out(next(p.rd).rd, p.ret)
            ELSE Out(p.rd, None)
    IN  Match(peek(rd))

\* read_char that tests the character after taking it.
read_char_eager(rd, target) ==
    LET Match(n) ==
            IF n.ret.some /\ n.ret.val[1] = target
            THEN Out(n.rd, n.ret)
            ELSE Out(n.rd, None)
    IN  Match(next(rd))

read_char(rd, target) ==
    LET Match(p) ==
            IF p.ret.some /\ p.ret.val[1] = target
            THEN Out(next(p.rd).rd, p.ret)
            ELSE Out(p.rd, None)
    IN  Match(peek(rd))

\* The start pattern with U+00D7 let in between its two Latin-1 ranges.
IsNameStartChar_Joined(c) ==
    \/ c = 58
    \/ c \in 65..90
    \/ c = 95
    \/ c \in 97..122
    \/ c \in 192..246
    \/ c \in 248..767
    \/ c \in 880..893
    \/ c \in 895..8191
    \/ c \in 8204..8205
    \/ c \in 8304..8591
    \/ c \in 11264..12271
    \/ c \in 12289..55295
    \/ c \in 63744..64975
    \/ c \in 65008..65533
    \/ c \in 65536..983039

\* The character pattern of read_name_start_char.
IsNameStartChar(c) ==
    \/ c = 58
    \/ c \in 65..90
    \/ c = 95
    \/ c \in 97..122
    \/ c \in 192..214
    \/ c \in 216..246
    \/ c \in 248..767
    \/ c \in 880..893
    \/ c \in 895..8191
    \/ c \in 8204..8205
    \/ c \in 8304..8591
    \/ c \in 11264..12271
    \/ c \in 12289..55295
    \/ c \in 63744..64975
    \/ c \in 65008..65533
    \/ c \in 65536..983039

\* The character pattern of the closure of read_name_char.
IsNameCharOnly(c) ==
    \/ c = 45
    \/ c = 46
    \/ c \in 48..57
    \/ c = 183
    \/ c \in 768..879
    \/ c \in 8255..8256

read_name_start_char(rd) ==
    LET Match(p) ==
            IF p.ret.some /\ IsNameStartChar(p.ret.val[1])
            THEN Out(next(p.rd).rd, p.ret)
            ELSE Out(p.rd, None)
    IN  Match(peek(rd))

\* read_name_char that runs its second test after a first match too.
read_name_char_both(rd) ==
    LET Match(p) ==
            IF p.ret.some /\ IsNameCharOnly(p.ret.val[1])
            THEN Out(next(p.rd).rd, p.ret)
            ELSE Out(p.rd, None)
        Also(s, m) == IF m.ret.some THEN m ELSE Out(m.rd, s.ret)
        AndThen(s) == Also(s, Match(peek(s.rd)))
    IN  AndThen(read_name_start_char(rd))

read_name_char(rd) ==
    LET Match(p) ==
            IF p.ret.some /\ IsNameCharOnly(p.ret.val[1])
            THEN Out(next(p.rd).rd, p.ret)
            ELSE Out(p.rd, None)
        OrElse(s) == IF s.ret.some THEN s ELSE Match(peek(s.rd))
    IN  OrElse(read_name_start_char(rd))

\* The loop of the closure of read_name.
RECURSIVE name_loop(_)
name_loop(rd) ==
    LET Match(c) == IF c.ret.some THEN name_loop(c.rd) ELSE Out(c.rd, Unit)
    IN  Match(read_name_char(rd))

\* The closure read_name hands to capture.
name_block(rd) ==
    LET Match(s) == IF s.ret.some THEN name_loop(s.rd) ELSE Out(s.rd, Unit)
    IN  Match(read_name_start_char(rd))

(***************************************************************************)
(* Calls.  A call names an operation and its arguments: set and neg give a *)
(* character, a character set or a predicate, blk the block of a capture.  *)
(* A block is a sequence of calls whose results are dropped; the block of  *)
(* read_name is the one call of its closure.                               *)
(***************************************************************************)
Call(op) == [op |-> op, neg |-> FALSE, set |-> {}, blk |-> <<>>]
CallSet(op, set) == [op |-> op, neg |-> FALSE, set |-> set, blk |-> <<>>]
CallPred(neg, set) == [op |-> "consume_while", neg |-> neg, set |-> set, blk |-> <<>>]
CallCapture(blk) == [op |-> "capture", neg |-> FALSE, set |-> {}, blk |-> blk]

Target(d) == CHOOSE c \in d.set : TRUE

RECURSIVE Exec(_, _), RunBlock(_, _), capture(_, _)

\* block(self) for a block given as a sequence of calls.
RunBlock(rd, blk) ==
    IF blk = <<>> THEN Out(rd, Unit)
    ELSE LET Then(o) == IF o.panic THEN o ELSE RunBlock(o.rd, Tail(blk))
         IN  Then(Exec(rd, Head(blk)))

capture(rd, blk) ==
    LET start == rd.offset
        Gave(r, end, ret) ==
            Out([r EXCEPT !.captured =
                     Append(r.captured, [start |-> start, end |-> end, ret |-> ret])],
                ret)
        Result(r, end) ==
            IF end > start
            THEN IF SliceOk(text, start, end)
                 THEN Gave(r, end, Some(Slice(text, start, end)))
                 ELSE Panic(r)
            ELSE Gave(r, end, None)
        After(b) == IF b.panic THEN b ELSE Result(b.rd, b.rd.offset)
    IN  After(RunBlock(rd, blk))

read_name(rd) == capture(rd, <<Call("name_block")>>)

Exec(rd, d) ==
    CASE d.op = "next" -> next(rd)
      [] d.op = "peek" -> peek(rd)
      [] d.op = "position" -> position(rd)
      [] d.op = "read_char" -> read_char(rd, Target(d))
      [] d.op = "consume_while" -> consume_while(rd, [neg |-> d.neg, set |-> d.set])
      [] d.op = "consume_any" -> consume_any(rd, d.set)
      [] d.op = "consume_until_char" -> consume_until_char(rd, Target(d))
      [] d.op = "consume_digits" -> consume_digits(rd)
      [] d.op = "consume_whitespace" -> consume_whitespace(rd)
      [] d.op = "read_name_start_char" -> read_name_start_char(rd)
      [] d.op = "read_name_char" -> read_name_char(rd)
      [] d.op = "read_name" -> read_name(rd)
      [] d.op = "capture" -> capture(rd, d.blk)
      [] d.op = "name_block" -> name_block(rd)

(***************************************************************************)
(* The Name grammar of http://www.w3.org/TR/REC-xml/ that the validators   *)
(* refer to: the ranges of NameStartChar, and the ranges NameChar adds to  *)
(* it, as inclusive pairs of code points.                                  *)
(***************************************************************************)
DocStartRanges ==
    { <<58, 58>>, <<65, 90>>, <<95, 95>>, <<97, 122>>, <<192, 214>>, <<216, 246>>,
      <<248, 767>>, <<880, 893>>, <<895, 8191>>, <<8204, 8205>>, <<8304, 8591>>,
      <<11264, 12271>>, <<12289, 55295>>, <<63744, 64975>>, <<65008, 65533>>,
      <<65536, 983039>> }

DocContRanges ==
    { <<45, 45>>, <<46, 46>>, <<48, 57>>, <<183, 183>>, <<768, 879>>, <<8255, 8256>> }

InRanges(c, rs) == \E r \in rs : r[1] <= c /\ c <= r[2]
InStartClass(c) == InRanges(c, DocStartRanges)
InNameClass(c) == InRanges(c, DocStartRanges \cup DocContRanges)

\* A char is a Unicode scalar value: a code point that is no surrogate.
IsChar(c) == (0 <= c /\ c <= 55295) \/ (57344 <= c /\ c <= 1114111)

(***************************************************************************)
(* Inputs.                                                                 *)
(***************************************************************************)
\* newline, '-', 'a', U+00E9 (two bytes)
Alphabet == {10, 45, 97, 233}

\* The texts of the tests of reader.rs.
TestTexts ==
    { <<97, 98, 99, 100, 101, 102, 103>>,
      <<32, 9, 32, 32, 10, 10, 32, 32, 9, 109, 32>>,
      <<102, 111, 111>>,
      <<102, 111, 111, 32, 98, 97, 114>>,
      <<102, 111, 111, 52, 50, 32, 98, 97, 114>>,
      <<102, 111, 111, 45, 98, 97, 114, 32, 98, 97, 122>>,
      <<102, 111, 111, 47>>,
      <<32, 102, 111, 111>>,
      <<33, 102, 111, 111>>,
      <<60, 102, 111, 111>>,
      <<63, 102, 111, 111>> }

\* Texts with characters of two, three and four bytes.
WideTexts ==
    { <<233, 97, 98>>, <<97, 233, 98>>, <<8364, 97, 98, 99>>, <<128512, 97>>, <<97, 98, 233>> }

\* "abc", and texts with name characters that are not start characters.
MoreTexts == { <<97, 98, 99>>, <<97, 45, 46>>, <<183, 97>>, <<97, 183, 768, 8256>> }

Texts ==
    UNION {[1..n -> Alphabet] : n \in 0..MaxLen} \cup TestTexts \cup WideTexts \cup MoreTexts

\* The code points within Near of a bound of a range of the Name grammar,
\* and the middle of each range.
ClassChars ==
    { c \in UNION { ((r[1] - Near)..(r[1] + Near)) \cup ((r[2] - Near)..(r[2] + Near))
                        \cup {(r[1] + r[2]) \div 2} : r \in DocStartRanges \cup DocContRanges } :
        IsChar(c) }

Targets == {97, 233}

CharSets == {{97, 98}, {99, 100, 101}, {97, 45, 233}}

Preds == {[neg |-> n, set |-> s] : n \in BOOLEAN, s \in {{}, {97}}}

BlockCalls == {Call("next"), Call("read_name_char")}

InnerBlocks == {<<>>, <<Call("next")>>, <<Call("read_name")>>}

Blocks ==
    UNION {[1..n -> BlockCalls] : n \in 0..MaxBlockLen}
        \cup {<<CallSet("consume_any", {99, 100, 101})>>}
        \cup {<<CallCapture(b)>> : b \in InnerBlocks}
        \cup {<<Call("next"), CallCapture(b), Call("next")>> : b \in InnerBlocks}

(***************************************************************************)
(* The state machine: one Reader over one text, called by its user.        *)
(***************************************************************************)
Reader ==
    [line |-> line, column |-> column, offset |-> offset, cursor |-> cursor,
     consumed |-> consumed, captured |-> <<>>]

\* Reader::new(text)
Init ==
    /\ text \in {EncodeStr(cs) : cs \in Texts}
    /\ line = NewReader.line
    /\ column = NewReader.column
    /\ offset = NewReader.offset
    /\ cursor = NewReader.cursor
    /\ consumed = NewReader.consumed
    /\ status = "ok"
    /\ last = [call |-> Call("new"), ret |-> Unit, pre |-> NewReader, panic |-> FALSE,
               captured |-> <<>>]

\* The call d of a public operation has run to its return or to its panic,
\* with outcome o.
Step(d, o) ==
    /\ line' = o.rd.line
    /\ column' = o.rd.column
    /\ offset' = o.rd.offset
    /\ cursor' = o.rd.cursor
    /\ consumed' = o.rd.consumed
    /\ status' = IF o.panic THEN "panicked" ELSE "ok"
    /\ last' = [call |-> d, ret |-> o.ret, pre |-> Reader, panic |-> o.panic,
                captured |-> o.rd.captured]
    /\ UNCHANGED text

\* A panic unwinds the caller: nothing is called after it.
DoNext ==
    /\ status = "ok"
    /\ \E o \in {next(Reader)} : Step(Call("next"), o)

DoPeek ==
    /\ status = "ok"
    /\ \E o \in {peek(Reader)} : Step(Call("peek"), o)

DoPosition ==
    /\ status = "ok"
    /\ \E o \in {position(Reader)} : Step(Call("position"), o)

DoReadChar ==
    /\ status = "ok"
    /\ \E t \in Targets : \E o \in {read_char(Reader, t)} :
           Step(CallSet("read_char", {t}), o)

DoConsumeWhile ==
    /\ status = "ok"
    /\ \E p \in Preds : \E o \in {consume_while(Reader, p)} :
           Step(CallPred(p.neg, p.set), o)

DoConsumeAny ==
    /\ status = "ok"
    /\ \E s \in CharSets : \E o \in {consume_any(Reader, s)} :
           Step(CallSet("consume_any", s), o)

DoConsumeUntilChar ==
    /\ status = "ok"
    /\ \E t \in Targets : \E o \in {consume_until_char(Reader, t)} :
           Step(CallSet("consume_until_char", {t}), o)

DoConsumeDigits ==
    /\ status = "ok"
    /\ \E o \in {consume_digits(Reader)} : Step(Call("consume_digits"), o)

DoConsumeWhitespace ==
    /\ status = "ok"
    /\ \E o \in {consume_whitespace(Reader)} : Step(Call("consume_whitespace"), o)

DoReadNameStartChar ==
    /\ status = "ok"
    /\ \E o \in {read_name_start_char(Reader)} : Step(Call("read_name_start_char"), o)

DoReadNameChar ==
    /\ status = "ok"
    /\ \E o \in {read_name_char(Reader)} : Step(Call("read_name_char"), o)

DoReadName ==
    /\ status = "ok"
    /\ \E o \in {read_name(Reader)} : Step(Call("read_name"), o)

DoCapture ==
    /\ status = "ok"
    /\ \E b \in Blocks : \E o \in {capture(Reader, b)} : Step(CallCapture(b), o)

Next ==
    \/ DoNext
    \/ DoPeek
    \/ DoPosition
    \/ DoReadChar
    \/ DoConsumeWhile
    \/ DoConsumeAny
    \/ DoConsumeUntilChar
    \/ DoConsumeDigits
    \/ DoConsumeWhitespace
    \/ DoReadNameStartChar
    \/ DoReadNameChar
    \/ DoReadName
    \/ DoCapture

Spec == Init /\ [][Next]_vars

(***************************************************************************)
(* The Name validators on one-character texts around the bounds of the     *)
(* ranges of the Name grammar.                                             *)
(***************************************************************************)
InitClass ==
    /\ text \in {Encode(c) : c \in ClassChars}
    /\ line = NewReader.line
    /\ column = NewReader.column
    /\ offset = NewReader.offset
    /\ cursor = NewReader.cursor
    /\ consumed = NewReader.consumed
    /\ status = "ok"
    /\ last = [call |-> Call("new"), ret |-> Unit, pre |-> NewReader, panic |-> FALSE,
               captured |-> <<>>]

NextClass ==
    \/ DoReadNameStartChar
    \/ DoReadNameChar

SpecClass == InitClass /\ [][NextClass]_vars

(***************************************************************************)
(* Vocabulary of the properties.                                           *)
(***************************************************************************)
\* The call that led to this state has returned (it did not panic).
Returned(op) == last.call.op = op /\ ~last.panic

\* The input that remained when the last call was made, and now.
RemBefore == Remaining(last.pre.cursor)
RemNow == Remaining(cursor)

\* The characters the last call consumed.
Eaten == SubSeq(consumed, Len(last.pre.consumed) + 1, Len(consumed))

PositionUnchanged ==
    /\ line = last.pre.line
    /\ column = last.pre.column
    /\ offset = last.pre.offset

\* Length of the longest prefix of cs whose characters all satisfy Ok.
PrefixLen(cs, Ok(_)) ==
    CHOOSE n \in 0..Len(cs) :
        /\ \A i \in 1..n : Ok(cs[i])
        /\ n = Len(cs) \/ ~Ok(cs[n + 1])

(***************************************************************************)
(* C1: offset after any operation is greater than or equal to offset       *)
(* before it.                                                              *)
(***************************************************************************)
C1_OffsetMonotone == [][offset' >= offset]_vars

C1_Witness == last.call.op = "consume_any" /\ offset >= last.pre.offset + 2

(***************************************************************************)
(* C2: for any two points A <= B of the scan, text[A.offset .. B.offset]   *)
(* is exactly the characters consumed between A and B, for every text.     *)
(* Every offset up to the current one was a point of the scan.             *)
(***************************************************************************)
C2_SliceIsConsumed ==
    \A a \in 0..offset, b \in 0..offset :
        a <= b =>
            /\ SliceOk(text, a, b)
            /\ Slice(text, a, b) = EncodeStr(SubSeq(consumed, a + 1, b))

(***************************************************************************)
(* C3: capture(op) returns, and returns "no match" exactly when op         *)
(* consumed nothing, and otherwise text[start .. end], which holds the     *)
(* characters op consumed and none consumed before capture was called.     *)
(***************************************************************************)
C3_CaptureResult ==
    last.call.op = "capture" =>
        /\ ~last.panic
        /\ last.ret.some <=> Eaten # <<>>
        /\ last.ret.some =>
            /\ last.ret.val = Slice(text, last.pre.offset, offset)
            /\ last.ret.val = EncodeStr(Eaten)

(***************************************************************************)
(* C4: no operation aborts, on any text.                                   *)
(***************************************************************************)
C4_NeverAborts == status = "ok" /\ ~last.panic

(***************************************************************************)
(* C5: an operation that returns "no match" leaves line, column, offset    *)
(* and the remaining input as they were.                                   *)
(***************************************************************************)
C5_Ops ==
    {"next", "peek", "read_char", "read_name_start_char", "read_name_char",
     "read_name", "capture"}

C5_NoMatchConsumesNothing ==
    (last.call.op \in C5_Ops /\ ~last.panic /\ ~last.ret.some) =>
        /\ PositionUnchanged
        /\ RemNow = RemBefore
        /\ Eaten = <<>>

C5_Witness ==
    /\ Returned("read_name") /\ ~last.ret.some
    /\ RemNow # <<>> /\ offset > 0

(***************************************************************************)
(* C6: next() on a non-exhausted Reader returns the next unread character, *)
(* adds one to offset, and moves to column 1 of the next line on a newline *)
(* and one column on otherwise; on an exhausted Reader it returns "no      *)
(* match" and changes nothing, and the Reader stays exhausted.             *)
(***************************************************************************)
C6_NextState ==
    Returned("next") =>
        IF RemBefore # <<>>
        THEN LET c == Head(RemBefore)
             IN  /\ last.ret = Some(<<c>>)
                 /\ RemNow = Tail(RemBefore)
                 /\ offset = last.pre.offset + 1
                 /\ c = 10 => line = last.pre.line + 1 /\ column = 1
                 /\ c # 10 => line = last.pre.line /\ column = last.pre.column + 1
        ELSE /\ last.ret = None
             /\ PositionUnchanged
             /\ RemNow = <<>>

C6_NextStep == [](C6_NextState) /\ [][RemNow = <<>> => RemNow' = <<>>]_vars

C6_Witness ==
    /\ Returned("next") /\ last.ret = Some(<<10>>)
    /\ last.pre.column > 1 /\ column = 1 /\ line = last.pre.line + 1

(***************************************************************************)
(* C7: peek() leaves line, column, offset and the remaining input          *)
(* unchanged and returns what the immediately following next() returns.    *)
(***************************************************************************)
C7_PeekState ==
    Returned("peek") =>
        /\ PositionUnchanged
        /\ RemNow = RemBefore
        /\ last.ret = IF RemBefore = <<>> THEN None ELSE Some(<<Head(RemBefore)>>)

C7_Peek ==
    /\ [](C7_PeekState)
    /\ [][(last.call.op = "peek" /\ last'.call.op = "next") => last'.ret = last.ret]_vars

C7_Witness ==
    /\ Returned("peek") /\ last.ret.some
    /\ last.pre.cursor.peeked = <<>> /\ offset > 0

(***************************************************************************)
(* C8: read_name() returns "no match" with nothing consumed when the       *)
(* remaining input is empty or does not start with a start-class           *)
(* character, and otherwise consumes and returns its longest prefix of one *)
(* start-class character followed by name characters.                      *)
(***************************************************************************)
NameLen(cs) ==
    IF cs = <<>> \/ ~InStartClass(Head(cs)) THEN 0
    ELSE 1 + PrefixLen(Tail(cs), InNameClass)

C8_ReadName ==
    last.call.op = "read_name" =>
        LET n == NameLen(RemBefore)
        IN  /\ ~last.panic
            /\ Eaten = SubSeq(RemBefore, 1, n)
            /\ RemNow = SubSeq(RemBefore, n + 1, Len(RemBefore))
            /\ n = 0 => last.ret = None /\ PositionUnchanged
            /\ n > 0 => last.ret = Some(EncodeStr(SubSeq(RemBefore, 1, n)))

(***************************************************************************)
(* C9 as stated: each validator accepts every code point inside each       *)
(* range of its class and rejects the code point just below and the code   *)
(* point just above each range.                                            *)
(***************************************************************************)
NextChar == Head(RemBefore)
Accepted == last.ret = Some(<<NextChar>>) /\ Eaten = <<NextChar>>
Rejected == last.ret = None /\ Eaten = <<>>
Neighbour(c, r) == c = r[1] - 1 \/ c = r[2] + 1

C9_BoundaryExact ==
    /\ (Returned("read_name_start_char") /\ RemBefore # <<>>) =>
           \A r \in DocStartRanges :
               /\ InRanges(NextChar, {r}) => Accepted
               /\ Neighbour(NextChar, r) => Rejected
    /\ (Returned("read_name_char") /\ RemBefore # <<>>) =>
           \A r \in DocContRanges :
               /\ InRanges(NextChar, {r}) => Accepted
               /\ Neighbour(NextChar, r) => Rejected

(***************************************************************************)
(* C9 amended: read_name_start_char is exact at the bounds of every range  *)
(* of the start class; read_name_char accepts every code point inside a    *)
(* continuation range and rejects the code point just below and just above *)
(* it unless that code point lies in another range of the start or the     *)
(* continuation class.                                                     *)
(***************************************************************************)
C9_BoundaryExactAmended ==
    /\ (Returned("read_name_start_char") /\ RemBefore # <<>>) =>
           \A r \in DocStartRanges :
               /\ InRanges(NextChar, {r}) => Accepted
               /\ Neighbour(NextChar, r) => Rejected
    /\ (Returned("read_name_char") /\ RemBefore # <<>>) =>
           \A r \in DocContRanges :
               /\ InRanges(NextChar, {r}) => Accepted
               /\ (Neighbour(NextChar, r) /\ ~InNameClass(NextChar)) => Rejected

C9_Witness ==
    /\ Returned("read_name_char") /\ RemBefore # <<>>
    /\ \E r \in DocContRanges : Neighbour(NextChar, r)
    /\ ~InNameClass(NextChar) /\ NextChar > 127
    /\ Rejected

(***************************************************************************)
(* C10: consume_while(p) consumes exactly the longest prefix of the        *)
(* remaining input whose characters all satisfy p; with an always-false p  *)
(* it consumes nothing and leaves line, column and offset unchanged.       *)
(***************************************************************************)
C10_ConsumeWhile ==
    Returned("consume_while") =>
        LET Ok(c) == Check([neg |-> last.call.neg, set |-> last.call.set], c)
            n == PrefixLen(RemBefore, Ok)
        IN  /\ Eaten = SubSeq(RemBefore, 1, n)
            /\ RemNow = SubSeq(RemBefore, n + 1, Len(RemBefore))
            /\ offset = last.pre.offset + n
            /\ \A i \in 1..Len(Eaten) : Ok(Eaten[i])
            /\ RemNow = <<>> \/ ~Ok(Head(RemNow))
            /\ (~last.call.neg /\ last.call.set = {}) => PositionUnchanged

C10_Witness ==
    /\ Returned("consume_while")
    /\ Len(Eaten) >= 2 /\ RemNow # <<>>

C10_WitnessNever ==
    /\ Returned("consume_while") /\ ~last.call.neg /\ last.call.set = {}
    /\ RemNow # <<>> /\ offset > 0

(***************************************************************************)
(* C11: read_char(target) consumes exactly one character and returns it    *)
(* when the next character equals target, and otherwise returns "no match" *)
(* and leaves line, column and offset unchanged; so on "abc" read_char of  *)
(* 'a' gives 'a' and offset 1.                                             *)
(***************************************************************************)
C11_ReadChar ==
    Returned("read_char") =>
        LET t == Target(last.call)
        IN  IF RemBefore # <<>> /\ Head(RemBefore) = t
            THEN /\ last.ret = Some(<<t>>)
                 /\ Eaten = <<t>>
                 /\ RemNow = Tail(RemBefore)
                 /\ offset = last.pre.offset + 1
            ELSE /\ last.ret = None
                 /\ Eaten = <<>>
                 /\ RemNow = RemBefore
                 /\ PositionUnchanged

C11_Witness ==
    /\ text = EncodeStr(<<97, 98, 99>>)
    /\ Returned("read_char") /\ last.ret = None
    /\ consumed = <<97>> /\ last.pre.offset = 1 /\ offset = 1

(***************************************************************************)
(* C12: consume_until_char(target) consumes no occurrence of target and    *)
(* stops at end of input or before the first target of the input that      *)
(* remained; with target next it consumes nothing.                         *)
(***************************************************************************)
C12_ConsumeUntilChar ==
    Returned("consume_until_char") =>
        LET t == Target(last.call)
        IN  /\ \A i \in 1..Len(Eaten) : Eaten[i] # t
            /\ Eaten \o RemNow = RemBefore
            /\ RemNow = <<>> \/ Head(RemNow) = t
            /\ (RemBefore # <<>> /\ Head(RemBefore) = t) => (Eaten = <<>> /\ PositionUnchanged)

C12_Witness ==
    /\ Returned("consume_until_char")
    /\ Len(Eaten) >= 2
    /\ RemNow # <<>> /\ Head(RemNow) = Target(last.call)

(***************************************************************************)
(* C13: consume_whitespace() consumes the longest run of space, tab and    *)
(* newline at the current position; line rises once per newline of the     *)
(* run and column counts from its last newline.  On the text of the test   *)
(* it ends at line 3, column 4, offset 9, before 'm'.                      *)
(***************************************************************************)
IsSpace(c) == c \in {32, 9, 10}
Newlines(cs) == Cardinality({i \in 1..Len(cs) : cs[i] = 10})
LastNewline(cs) == IF Newlines(cs) = 0 THEN 0 ELSE CHOOSE i \in 1..Len(cs) :
                       cs[i] = 10 /\ \A j \in (i + 1)..Len(cs) : cs[j] # 10

C13_ConsumeWhitespace ==
    Returned("consume_whitespace") =>
        /\ Eaten = SubSeq(RemBefore, 1, PrefixLen(RemBefore, IsSpace))
        /\ Eaten \o RemNow = RemBefore
        /\ offset = last.pre.offset + Len(Eaten)
        /\ line = last.pre.line + Newlines(Eaten)
        /\ column = IF Newlines(Eaten) = 0 THEN last.pre.column + Len(Eaten)
                    ELSE 1 + Len(Eaten) - LastNewline(Eaten)
        /\ (text = <<32, 9, 32, 32, 10, 10, 32, 32, 9, 109, 32>> /\ last.pre = NewReader) =>
               (line = 3 /\ column = 4 /\ offset = 9 /\ Head(RemNow) = 109)

C13_Witness ==
    /\ Returned("consume_whitespace")
    /\ text = <<32, 9, 32, 32, 10, 10, 32, 32, 9, 109, 32>> /\ last.pre = NewReader
    /\ line = 3 /\ column = 4 /\ offset = 9

(***************************************************************************)
(* C14: in every state line is one plus the newlines consumed, column one  *)
(* plus the characters consumed since the last consumed newline, offset    *)
(* the number of characters consumed; a fresh Reader is at (1, 1), 0.      *)
(***************************************************************************)
C14_Position ==
    /\ line = 1 + Newlines(consumed)
    /\ column = 1 + Len(consumed) - LastNewline(consumed)
    /\ offset = Len(consumed)
    /\ last.call.op = "new" => (line = 1 /\ column = 1 /\ offset = 0)

C14_Witness == line >= 3 /\ column >= 2 /\ offset > line + column

(***************************************************************************)
(* C15: read_name_char() accepts the next character exactly when it is in  *)
(* the start class or the continuation-only class, then consumes exactly   *)
(* that one character and returns it; otherwise it consumes nothing.       *)
(***************************************************************************)
C15_ReadNameChar ==
    Returned("read_name_char") =>
        IF RemBefore # <<>> /\ InNameClass(Head(RemBefore))
        THEN /\ last.ret = Some(<<Head(RemBefore)>>)
             /\ Eaten = <<Head(RemBefore)>>
             /\ RemNow = Tail(RemBefore)
             /\ offset = last.pre.offset + 1
        ELSE /\ last.ret = None
             /\ Eaten = <<>>
             /\ RemNow = RemBefore
             /\ PositionUnchanged

C15_Witness ==
    /\ Returned("read_name_char") /\ last.ret.some
    /\ InStartClass(Head(RemBefore))
    /\ RemNow # <<>> /\ InRanges(Head(RemNow), DocContRanges)

(***************************************************************************)
(* C16: when the operation of an outer capture calls capture itself, the   *)
(* outer capture returns the characters its whole operation consumed, and  *)
(* every inner capture returned the characters consumed while its own      *)
(* operation ran, a contiguous part of the outer result.                   *)
(***************************************************************************)
Nested(d) ==
    d.op = "capture" /\ \E i \in 1..Len(d.blk) : d.blk[i].op \in {"capture", "read_name"}
Outer == last.captured[Len(last.captured)]
Faithful(cap) ==
    cap.ret = IF cap.end > cap.start
              THEN Some(EncodeStr(SubSeq(consumed, cap.start + 1, cap.end)))
              ELSE None

C16_CapturesNest ==
    Nested(last.call) =>
        /\ ~last.panic
        /\ Len(last.captured) >= 2
        /\ Outer = [start |-> last.pre.offset, end |-> offset, ret |-> last.ret]
        /\ \A i \in 1..Len(last.captured) :
               /\ Faithful(last.captured[i])
               /\ last.pre.offset <= last.captured[i].start
               /\ last.captured[i].end <= offset

(***************************************************************************)
(* C17: every operation terminates: started with n characters remaining,   *)
(* it consumes a run of at most n of them, the next ones of the input, and *)
(* then returns.                                                           *)
(***************************************************************************)
Called == last.call.op # "new"
ConsumedBounded ==
    Called =>
        /\ Len(Eaten) <= Len(RemBefore)
        /\ Eaten \o RemNow = RemBefore

C17_Terminates == ConsumedBounded /\ (Called => ~last.panic /\ status = "ok")

(***************************************************************************)
(* C18: the characters the cursor has still to deliver are the characters  *)
(* of the text from index offset on; offset never exceeds the number of    *)
(* characters, and peek and next give "no match" exactly when it equals    *)
(* that number.                                                            *)
(***************************************************************************)
TextChars == DecodeFrom(text, 0)

C18_CursorInStep ==
    /\ offset <= Len(TextChars)
    /\ RemNow = SubSeq(TextChars, offset + 1, Len(TextChars))
    /\ (peek(Reader).ret = None) <=> (offset = Len(TextChars))
    /\ (next(Reader).ret = None) <=> (offset = Len(TextChars))

C18_Witness ==
    /\ offset = Len(TextChars) /\ offset >= 2
    /\ cursor.peeked = <<>>
    /\ Returned("next") /\ last.ret.some

====
